---- MODULE Spec2Model ----
(***************************************************************************)
(* Model of the texture cache engine of marzipano (src/src/TextureStore.js) *)
(* and of the collections it is built on (src/unnamed/part_014).            *)
(*                                                                          *)
(* The store is one record, `store`, whose fields are the fields of the     *)
(* TextureStore object.  Every method is an operator on a call context      *)
(* c = [s, ev, err, ret, upd]: the store, the effects emitted so far by the *)
(* call, the error thrown (NoError while the call is running normally), the *)
(* return value and whether the call entered _update.  A throw leaves the   *)
(* store as the statements before it left it.                               *)
(***************************************************************************)
EXTENDS Integers, Sequences, FiniteSets, TLC

VARIABLES
  store,    \* the TextureStore object
  now,      \* the value Date.now() returned to the last call that read it
  last,     \* the last call: its name, argument, effects, error, return value
  mon,      \* history: the frame protocol as the caller drives it
  trail,    \* history: per tile, progress through marked / unmarked / marked
  netPins,  \* history: per tile, pins minus matched unpins since the last clear
  srch,     \* a geometry, a view of it, and the last call of its tile search
  geo,      \* the last call on tiles or on a geometry constructor
  loop,     \* a RenderLoop, the browser's frame queue and what was rendered
  anim      \* one animation started with animate()

vars == <<store, now, last, mon, trail, netPins, srch, geo, loop, anim>>

\* ------------------------------------------------------------------ bounds
NumTiles == 2
MaxOpen == 2
MaxMarks == 2
MaxPins == 2
MaxTime == 0
MaxSeq == 3
FlatW == 2
FlatH == 2
MaxCalls == 2

Tiles == 1..NumTiles

\* --------------------------------------------------------- program constants
IDLE == 0
START == 1
MARK == 2
END == 3

defaultCapacity == 64
previouslyVisibleCacheSize == 512
enforceMemoryBudget == TRUE

\* opts.maxGpuMemory the store is constructed with: one tile's estimate fits,
\* two do not.
maxGpuMemory == 2 * 1024 * 1024

NoError == "none"
TypeError == "TypeError: Assignment to constant variable"
CancelError == "CancelError"

\* ------------------------------------------------------------------ tiles
\* Tile#hash(): a stable value derived from the tile's fields.
hash(tile) == tile - 1

mod(a, b) == a % b

\* ---------------------------------------------------------- collections/Map
MapEmpty == <<>>
MapHas(m, k) == k \in DOMAIN m
MapGet(m, k) == m[k]
MapSet(m, k, v) == [x \in (DOMAIN m) \cup {k} |-> IF x = k THEN v ELSE m[x]]
MapDel(m, k) == [x \in (DOMAIN m) \ {k} |-> m[x]]

RECURSIVE SetToSeq(_)
SetToSeq(S) ==
  IF S = {} THEN <<>>
  ELSE LET x == CHOOSE y \in S : \A z \in S : y <= z
       IN <<x>> \o SetToSeq(S \ {x})

\* Map#forEach: the keys in iteration order.
MapKeys(m) == SetToSeq(DOMAIN m)

\* ---------------------------------------------------------- collections/Set
\* A Set is the sequence of its elements in insertion order; bucket i holds,
\* in that order, the elements whose hash is i modulo the capacity.
SetEmpty == <<>>

SeqHas(q, e) == \E i \in 1..Len(q) : q[i] = e

SetBucket(set, i) == SelectSeq(set, LAMBDA e : mod(hash(e), defaultCapacity) = i)

SetHas(set, element) == SeqHas(SetBucket(set, mod(hash(element), defaultCapacity)), element)

SetAdd(set, element) == IF SetHas(set, element) THEN set ELSE Append(set, element)

SetRemove(set, element) == SelectSeq(set, LAMBDA e : e # element)

SetSize(set) == Len(set)

SetClear(set) == <<>>

\* forEach that calls fn on the element added first, and on no other.
SetForEach_firstAdded(set) ==
  IF 0 < Len(set)
  THEN [visited |-> <<set[1]>>, err |-> NoError]
  ELSE [visited |-> <<>>, err |-> NoError]

\* Set#forEach: `count`, `i` and `j` are declared const.  With bucket 0 empty
\* the inner loop body is skipped and the outer `i++` throws; otherwise fn is
\* called on the first element of bucket 0 and `count += 1` throws.
SetForEach(set) ==
  LET bucket == SetBucket(set, 0)
  IN IF 0 < defaultCapacity
     THEN IF 0 < Len(bucket)
          THEN [visited |-> <<bucket[1]>>, err |-> TypeError]
          ELSE [visited |-> <<>>, err |-> TypeError]
     ELSE [visited |-> <<>>, err |-> NoError]

\* ------------------------------------------------------- collections/LruSet
\* An LruSet is the sequence of its elements, oldest first.
LruHas(lru, element) == SeqHas(lru, element)

LruRemove(lru, element) == SelectSeq(lru, LAMBDA e : e # element)

\* LruSet#add: [set, evicted], evicted the sequence of the (at most one)
\* element the insertion replaced.
LruAdd(lru, capacity, element) ==
  IF capacity = 0 THEN [set |-> lru, evicted |-> <<element>>]
  ELSE IF LruHas(lru, element)
       THEN [set |-> Append(LruRemove(lru, element), element), evicted |-> <<>>]
  ELSE IF Len(lru) >= capacity
       THEN [set |-> Append(Tail(lru), element), evicted |-> <<Head(lru)>>]
  ELSE [set |-> Append(lru, element), evicted |-> <<>>]

\* ------------------------------------------------------------ call contexts
Ctx(s) == [s |-> s, ev |-> <<>>, err |-> NoError, ret |-> 0, upd |-> FALSE]

Throw(c, e) == [c EXCEPT !.err = e]

Emit(c, name, tile) == [c EXCEPT !.ev = Append(c.ev, <<name, tile>>)]

\* ---------------------------------------------------------- TextureStoreItem
\* An item: _cancel is TRUE while the load is in flight, _texture and _asset
\* are TRUE when the item holds a texture / retains a dynamic asset.
NewItem == [_cancel |-> TRUE, _texture |-> FALSE, _asset |-> FALSE]

\* new TextureStoreItem(store, tile): emits textureStartLoad and starts the
\* chained load, keeping its cancel handle.
ItemConstructor(c, tile) == Emit(c, "textureStartLoad", tile)

\* The completion callback of the load, called with (err, tile, hAsset, hTexture).
\* err is NoError, CancelError or another error; hAsset and hTexture say
\* whether the callback was handed an asset / a texture; dynamic is
\* asset.isDynamic().
\* The callback with `if` in place of `else`: a cancelled load is reported as
\* an error too.
ItemCallback_cancelAndError(c, tile, err, hAsset, hTexture, dynamic) ==
  IF err # NoError
  THEN LET c1 == IF hAsset THEN Emit(c, "asset.destroy", tile) ELSE c
           c2 == IF hTexture THEN Emit(c1, "texture.destroy", tile) ELSE c1
           c3 == IF err = CancelError THEN Emit(c2, "textureCancel", tile) ELSE c2
       IN Emit(c3, "textureError", tile)
  ELSE LET c1 == IF dynamic THEN c ELSE Emit(c, "asset.destroy", tile)
       IN Emit(c1, "textureLoad", tile)

\* The callback that reports no error that is not a cancellation.
ItemCallback_silentError(c, tile, err, hAsset, hTexture, dynamic) ==
  IF err # NoError
  THEN LET c1 == IF hAsset THEN Emit(c, "asset.destroy", tile) ELSE c
           c2 == IF hTexture THEN Emit(c1, "texture.destroy", tile) ELSE c1
       IN IF err = CancelError
          THEN Emit(c2, "textureCancel", tile)
          ELSE c2
  ELSE LET c1 == IF dynamic THEN c ELSE Emit(c, "asset.destroy", tile)
       IN Emit(c1, "textureLoad", tile)

ItemCallback(c, tile, err, hAsset, hTexture, dynamic) ==
  IF err # NoError
  THEN LET c1 == IF hAsset THEN Emit(c, "asset.destroy", tile) ELSE c
           c2 == IF hTexture THEN Emit(c1, "texture.destroy", tile) ELSE c1
       IN IF err = CancelError
          THEN Emit(c2, "textureCancel", tile)
          ELSE Emit(c2, "textureError", tile)
  ELSE LET c1 == IF dynamic THEN c ELSE Emit(c, "asset.destroy", tile)
       IN Emit(c1, "textureLoad", tile)

\* The item a settled callback leaves behind.
ItemAfterCallback(item, err, dynamic) ==
  IF err # NoError
  THEN [item EXCEPT !._cancel = FALSE]
  ELSE [_cancel |-> FALSE, _texture |-> TRUE, _asset |-> dynamic]

\* The cancel handle chain(retry(loadAsset), createTexture) returns: calling it
\* with an error completes the load with that error, handing the callback what
\* the interrupted step had produced.
CancelHandle(c, tile, err, hAsset, hTexture) ==
  ItemCallback(c, tile, err, hAsset, hTexture, FALSE)

\* TextureStoreItem#destroy.  hAsset and hTexture: what the cancel handle hands
\* to the callback when the load is still in flight.
\* destroy without the return after the cancel: it goes on to release and to
\* emit textureUnload.
ItemDestroy_noReturn(c, tile, item, hAsset, hTexture) ==
  LET c0 == IF item._cancel
            THEN CancelHandle(c, tile, CancelError, hAsset, hTexture) ELSE c
      c1 == IF item._asset THEN Emit(c0, "asset.destroy", tile) ELSE c0
      c2 == IF item._texture THEN Emit(c1, "texture.destroy", tile) ELSE c1
  IN Emit(c2, "textureUnload", tile)

ItemDestroy(c, tile, item, hAsset, hTexture) ==
  IF item._cancel
  THEN CancelHandle(c, tile, CancelError, hAsset, hTexture)
  ELSE LET c1 == IF item._asset THEN Emit(c, "asset.destroy", tile) ELSE c
           c2 == IF item._texture THEN Emit(c1, "texture.destroy", tile) ELSE c1
       IN Emit(c2, "textureUnload", tile)

\* -------------------------------------------------------------- TextureStore
\* The value NaN of a JavaScript number.  Every sum and difference with it is
\* NaN, every comparison with it is false, and NaN || 0 is 0.
NaN == -1

Plus(a, b) == IF a = NaN \/ b = NaN THEN NaN ELSE a + b

Minus(a, b) == IF a = NaN \/ b = NaN THEN NaN ELSE a - b

Greater(a, b) == a # NaN /\ b # NaN /\ a > b

LessOrEqual(a, b) == a # NaN /\ b # NaN /\ a <= b

OrZero(a) == IF a = NaN THEN 0 ELSE a

\* new TextureStore(source, stage, { maxGpuMemory: maxGpuMemory }); the tiles
\* the store is given are those of the source's geometry.
TextureStoreConstructor(source) ==
  [ _source |-> source,
    _state |-> IDLE,
    _delimCount |-> 0,
    _itemMap |-> MapEmpty,
    _visible |-> SetEmpty,
    _previouslyVisible |-> <<>>,
    _pinMap |-> MapEmpty,
    _maxGpuMemory |-> maxGpuMemory,
    _enforceMemoryBudget |-> enforceMemoryBudget,
    _currentGpuMemory |-> 0,
    _tileMemoryMap |-> MapEmpty,
    _tileAccessMap |-> MapEmpty,
    _tileHitCount |-> 0,
    _tileMissCount |-> 0,
    _newVisible |-> SetEmpty ]

gpuMemoryUsage(s) == s._currentGpuMemory

\* width * height * 4 * 1.33, in whole bytes.  A cube tile has no width or
\* height property and gets the 512 defaults; on a flat tile tile.width and
\* tile.height are the methods of FlatTile.prototype, which are truthy, and
\* the product of two functions is NaN.
_estimateTextureMemory(s, tile) ==
  IF s._source = "flat" THEN NaN ELSE (512 * 512 * 4 * 133) \div 100

_loadTile(c, tile) ==
  IF c.err # NoError THEN c
  ELSE IF MapHas(c.s._itemMap, tile)
  THEN Throw(c, "TextureStore: loading texture already in cache")
  ELSE LET c1 == ItemConstructor(c, tile)
           estimatedMemory == _estimateTextureMemory(c.s, tile)
       IN [c1 EXCEPT !.s._itemMap = MapSet(c.s._itemMap, tile, NewItem),
                     !.s._tileMemoryMap = MapSet(c.s._tileMemoryMap, tile, estimatedMemory),
                     !.s._currentGpuMemory = Plus(c.s._currentGpuMemory, estimatedMemory)]

\* _unloadTile that destroys the item and leaves it in the item map.
_unloadTile_keepItem(c, tile, hAsset, hTexture) ==
  IF c.err # NoError THEN c
  ELSE IF ~MapHas(c.s._itemMap, tile)
  THEN Throw(c, "TextureStore: unloading texture not in cache")
  ELSE LET item == MapGet(c.s._itemMap, tile)
           tileMemory == IF MapHas(c.s._tileMemoryMap, tile)
                         THEN OrZero(MapGet(c.s._tileMemoryMap, tile)) ELSE 0
           c1 == [c EXCEPT !.s._itemMap = MapSet(c.s._itemMap, tile, [item EXCEPT !._cancel = FALSE]),
                           !.s._currentGpuMemory = Minus(c.s._currentGpuMemory, tileMemory),
                           !.s._tileMemoryMap = MapDel(c.s._tileMemoryMap, tile),
                           !.s._tileAccessMap = MapDel(c.s._tileAccessMap, tile)]
       IN ItemDestroy(c1, tile, item, hAsset, hTexture)

_unloadTile(c, tile, hAsset, hTexture) ==
  IF c.err # NoError THEN c
  ELSE IF ~MapHas(c.s._itemMap, tile)
  THEN Throw(c, "TextureStore: unloading texture not in cache")
  ELSE LET item == MapGet(c.s._itemMap, tile)
           tileMemory == IF MapHas(c.s._tileMemoryMap, tile)
                         THEN OrZero(MapGet(c.s._tileMemoryMap, tile)) ELSE 0
           c1 == [c EXCEPT !.s._itemMap = MapDel(c.s._itemMap, tile),
                           !.s._currentGpuMemory = Minus(c.s._currentGpuMemory, tileMemory),
                           !.s._tileMemoryMap = MapDel(c.s._tileMemoryMap, tile),
                           !.s._tileAccessMap = MapDel(c.s._tileAccessMap, tile)]
       IN ItemDestroy(c1, tile, item, hAsset, hTexture)

\* this._evicted.forEach(tile => this._unloadTile(tile)), the array's forEach.
RECURSIVE UnloadEach(_, _, _, _)
UnloadEach(c, evicted, hAsset, hTexture) ==
  IF evicted = <<>> \/ c.err # NoError THEN c
  ELSE UnloadEach(_unloadTile(c, Head(evicted), hAsset, hTexture), Tail(evicted), hAsset, hTexture)

clear(c, hAsset, hTexture) ==
  LET c1 == UnloadEach(c, MapKeys(c.s._itemMap), hAsset, hTexture)
  IN IF c1.err # NoError THEN c1
     ELSE [c1 EXCEPT !.s._itemMap = MapEmpty,
                     !.s._visible = SetClear(c1.s._visible),
                     !.s._previouslyVisible = <<>>,
                     !.s._pinMap = MapEmpty,
                     !.s._newVisible = SetClear(c1.s._newVisible)]

\* clearNotPinned that unloads every item, pinned or not.
clearNotPinned_all(c, hAsset, hTexture) ==
  LET evicted == MapKeys(c.s._itemMap)
      c1 == UnloadEach(c, evicted, hAsset, hTexture)
  IN IF c1.err # NoError THEN c1
     ELSE [c1 EXCEPT !.s._visible = SetClear(c1.s._visible),
                     !.s._previouslyVisible = <<>>]

clearNotPinned(c, hAsset, hTexture) ==
  LET evicted == SelectSeq(MapKeys(c.s._itemMap), LAMBDA tile : ~MapHas(c.s._pinMap, tile))
      c1 == UnloadEach(c, evicted, hAsset, hTexture)
  IN IF c1.err # NoError THEN c1
     ELSE [c1 EXCEPT !.s._visible = SetClear(c1.s._visible),
                     !.s._previouslyVisible = <<>>]

startFrame(c) ==
  IF c.s._state # IDLE /\ c.s._state # START
  THEN Throw(c, "TextureStore: startFrame called out of sequence")
  ELSE [c EXCEPT !.s._state = START,
                 !.s._delimCount = c.s._delimCount + 1]

\* Whether the item of a tile holds a texture / a dynamic asset.
texture(s, tile) == MapHas(s._itemMap, tile) /\ MapGet(s._itemMap, tile)._texture
asset(s, tile) == MapHas(s._itemMap, tile) /\ MapGet(s._itemMap, tile)._asset

\* markTile that counts the access before it checks the state.
markTile_countFirst(c, tile, time) ==
  LET hit == texture(c.s, tile)
      c0 == [c EXCEPT !.s._tileHitCount = IF hit THEN @ + 1 ELSE @,
                      !.s._tileMissCount = IF hit THEN @ ELSE @ + 1]
  IN IF c.s._state # START /\ c.s._state # MARK
     THEN Throw(c0, "TextureStore: markTile called out of sequence")
     ELSE LET c1 == [c0 EXCEPT !.s._state = MARK,
                               !.s._tileAccessMap = MapSet(c.s._tileAccessMap, tile, time)]
              c2 == IF texture(c.s, tile) /\ asset(c.s, tile)
                    THEN Emit(c1, "texture.refresh", tile) ELSE c1
          IN [c2 EXCEPT !.s._newVisible = SetAdd(c.s._newVisible, tile)]

\* markTile that counts a hit for every tile that has an item.
markTile_hitOnItem(c, tile, time) ==
  IF c.s._state # START /\ c.s._state # MARK
  THEN Throw(c, "TextureStore: markTile called out of sequence")
  ELSE LET hit == MapHas(c.s._itemMap, tile)
           c1 == [c EXCEPT !.s._state = MARK,
                           !.s._tileAccessMap = MapSet(c.s._tileAccessMap, tile, time),
                           !.s._tileHitCount = IF hit THEN @ + 1 ELSE @,
                           !.s._tileMissCount = IF hit THEN @ ELSE @ + 1]
           c2 == IF texture(c.s, tile) /\ asset(c.s, tile)
                 THEN Emit(c1, "texture.refresh", tile) ELSE c1
       IN [c2 EXCEPT !.s._newVisible = SetAdd(c.s._newVisible, tile)]

markTile(c, tile, time) ==
  IF c.s._state # START /\ c.s._state # MARK
  THEN Throw(c, "TextureStore: markTile called out of sequence")
  ELSE LET hit == texture(c.s, tile)
           c1 == [c EXCEPT !.s._state = MARK,
                           !.s._tileAccessMap = MapSet(c.s._tileAccessMap, tile, time),
                           !.s._tileHitCount = IF hit THEN @ + 1 ELSE @,
                           !.s._tileMissCount = IF hit THEN @ ELSE @ + 1]
           c2 == IF texture(c.s, tile) /\ asset(c.s, tile)
                 THEN Emit(c1, "texture.refresh", tile) ELSE c1
       IN [c2 EXCEPT !.s._newVisible = SetAdd(c.s._newVisible, tile)]

\* The loop over _noLongerVisible: r = [c, evicted].
RECURSIVE MoveNoLongerVisible(_, _, _, _)
MoveNoLongerVisible(r, noLongerVisible, hAsset, hTexture) ==
  IF noLongerVisible = <<>> \/ r.c.err # NoError THEN r
  ELSE LET tile == Head(noLongerVisible)
           s == r.c.s
           r1 == IF texture(s, tile)
                 THEN LET a == LruAdd(s._previouslyVisible, previouslyVisibleCacheSize, tile)
                      IN [c |-> [r.c EXCEPT !.s._previouslyVisible = a.set],
                          evicted |-> r.evicted \o a.evicted]
                 ELSE IF MapHas(s._itemMap, tile)
                 THEN [r EXCEPT !.c = _unloadTile(r.c, tile, hAsset, hTexture)]
                 ELSE r
       IN MoveNoLongerVisible(r1, Tail(noLongerVisible), hAsset, hTexture)

\* lastAccess of a candidate: this._tileAccessMap.get(tile) || 0.
lastAccess(s, tile) == IF MapHas(s._tileAccessMap, tile) THEN MapGet(s._tileAccessMap, tile) ELSE 0

\* candidates.sort((a, b) => a.lastAccess - b.lastAccess), a stable sort.
RECURSIVE SortByLastAccess(_, _)
SortByLastAccess(s, candidates) ==
  IF candidates = <<>> THEN <<>>
  ELSE LET i == CHOOSE k \in 1..Len(candidates) :
                  /\ \A j \in 1..Len(candidates) :
                        lastAccess(s, candidates[k]) <= lastAccess(s, candidates[j])
                  /\ \A j \in 1..(k - 1) :
                        lastAccess(s, candidates[j]) > lastAccess(s, candidates[k])
       IN <<candidates[i]>> \o
          SortByLastAccess(s, SubSeq(candidates, 1, i - 1) \o SubSeq(candidates, i + 1, Len(candidates)))

\* The loop over the sorted candidates: r = [c, evicted].
RECURSIVE EvictCandidates(_, _)
EvictCandidates(r, candidates) ==
  IF candidates = <<>> THEN r
  ELSE IF LessOrEqual(r.c.s._currentGpuMemory, r.c.s._maxGpuMemory) THEN r
  ELSE LET tile == Head(candidates)
       IN EvictCandidates(
            [c |-> [r.c EXCEPT !.s._previouslyVisible = LruRemove(@, tile)],
             evicted |-> Append(r.evicted, tile)],
            Tail(candidates))

_evictToMeetBudget(r) ==
  LET s == r.c.s
      candidates == SelectSeq(MapKeys(s._itemMap),
                      LAMBDA tile : /\ ~(MapHas(s._pinMap, tile) \/ SetHas(s._visible, tile))
                                    /\ texture(s, tile))
  IN EvictCandidates(r, SortByLastAccess(s, candidates))

\* The loop over _evicted: unload unless pinned.
RECURSIVE UnloadEvicted(_, _, _, _)
UnloadEvicted(c, evicted, hAsset, hTexture) ==
  IF evicted = <<>> \/ c.err # NoError THEN c
  ELSE LET tile == Head(evicted)
           c1 == IF ~MapHas(c.s._pinMap, tile) THEN _unloadTile(c, tile, hAsset, hTexture) ELSE c
       IN UnloadEvicted(c1, Tail(evicted), hAsset, hTexture)

\* The callback of the last _newVisible.forEach, on the tiles it is called on.
RECURSIVE LoadEach(_, _)
LoadEach(c, tiles) ==
  IF tiles = <<>> \/ c.err # NoError THEN c
  ELSE LET tile == Head(tiles)
           c1 == IF ~MapHas(c.s._itemMap, tile) THEN _loadTile(c, tile) ELSE c
       IN LoadEach(c1, Tail(tiles))

_update(c, hAsset, hTexture) ==
  LET s == c.s
      f1 == SetForEach(s._visible)
      noLongerVisible == SelectSeq(f1.visited, LAMBDA tile : ~SetHas(s._newVisible, tile))
      f2 == SetForEach(s._newVisible)
      visibleAgain == SelectSeq(f2.visited, LAMBDA tile : LruHas(s._previouslyVisible, tile))
      c3 == [c EXCEPT !.s._previouslyVisible =
                         SelectSeq(@, LAMBDA tile : ~SeqHas(visibleAgain, tile))]
      r4 == MoveNoLongerVisible([c |-> c3, evicted |-> <<>>], noLongerVisible, hAsset, hTexture)
      r5 == IF /\ r4.c.s._enforceMemoryBudget
               /\ Greater(r4.c.s._currentGpuMemory, r4.c.s._maxGpuMemory)
            THEN _evictToMeetBudget(r4) ELSE r4
      c6 == UnloadEvicted(r5.c, r5.evicted, hAsset, hTexture)
      f7 == SetForEach(c6.s._newVisible)
      c7 == LoadEach(c6, f7.visited)
  IN IF f1.err # NoError THEN Throw(c, f1.err)
     ELSE IF f2.err # NoError THEN Throw(c, f2.err)
     ELSE IF r4.c.err # NoError THEN r4.c
     ELSE IF c6.err # NoError THEN c6
     ELSE IF c7.err # NoError THEN c7
     ELSE IF f7.err # NoError THEN Throw(c7, f7.err)
     ELSE [c7 EXCEPT !.s._visible = c7.s._newVisible,
                     !.s._newVisible = SetClear(c7.s._visible)]

endFrame(c, hAsset, hTexture) ==
  IF c.s._state # START /\ c.s._state # MARK /\ c.s._state # END
  THEN Throw(c, "TextureStore: endFrame called out of sequence")
  ELSE LET c1 == [c EXCEPT !.s._state = END,
                           !.s._delimCount = c.s._delimCount - 1]
       IN IF c1.s._delimCount = 0
          THEN LET c2 == _update([c1 EXCEPT !.upd = TRUE], hAsset, hTexture)
               IN IF c2.err # NoError THEN c2
                  ELSE [c2 EXCEPT !.s._state = IDLE]
          ELSE c1

\* pin that only counts and never starts a load.
pin_noLoad(c, tile) ==
  LET count == (IF MapHas(c.s._pinMap, tile) THEN MapGet(c.s._pinMap, tile) ELSE 0) + 1
      c1 == [c EXCEPT !.s._pinMap = MapSet(c.s._pinMap, tile, count)]
  IN [c1 EXCEPT !.ret = count]

pin(c, tile) ==
  LET count == (IF MapHas(c.s._pinMap, tile) THEN MapGet(c.s._pinMap, tile) ELSE 0) + 1
      c1 == [c EXCEPT !.s._pinMap = MapSet(c.s._pinMap, tile, count)]
      c2 == IF ~MapHas(c1.s._itemMap, tile) THEN _loadTile(c1, tile) ELSE c1
  IN IF c2.err # NoError THEN c2 ELSE [c2 EXCEPT !.ret = count]

\* unpin without the check that the tile is pinned.
unpin_noCheck(c, tile, hAsset, hTexture) ==
  LET count == (IF MapHas(c.s._pinMap, tile) THEN MapGet(c.s._pinMap, tile) ELSE 0) - 1
      c1 == IF count # 0
            THEN [c EXCEPT !.s._pinMap = MapSet(c.s._pinMap, tile, count)]
            ELSE LET c0 == [c EXCEPT !.s._pinMap = MapDel(c.s._pinMap, tile)]
                 IN IF ~SetHas(c0.s._visible, tile) /\ ~LruHas(c0.s._previouslyVisible, tile)
                    THEN _unloadTile(c0, tile, hAsset, hTexture)
                    ELSE c0
  IN IF c1.err # NoError THEN c1 ELSE [c1 EXCEPT !.ret = count]

\* unpin that returns the count it found instead of the new one.
unpin_oldCount(c, tile, hAsset, hTexture) ==
  IF ~MapHas(c.s._pinMap, tile) \/ MapGet(c.s._pinMap, tile) = 0
  THEN Throw(c, "TextureStore: unpin when not pinned")
  ELSE LET count == MapGet(c.s._pinMap, tile) - 1
           c1 == IF count > 0
                 THEN [c EXCEPT !.s._pinMap = MapSet(c.s._pinMap, tile, count)]
                 ELSE LET c0 == [c EXCEPT !.s._pinMap = MapDel(c.s._pinMap, tile)]
                      IN IF ~SetHas(c0.s._visible, tile) /\ ~LruHas(c0.s._previouslyVisible, tile)
                         THEN _unloadTile(c0, tile, hAsset, hTexture)
                         ELSE c0
       IN IF c1.err # NoError THEN c1 ELSE [c1 EXCEPT !.ret = count + 1]

\* unpin that never unloads the tile.
unpin_noUnload(c, tile, hAsset, hTexture) ==
  IF ~MapHas(c.s._pinMap, tile) \/ MapGet(c.s._pinMap, tile) = 0
  THEN Throw(c, "TextureStore: unpin when not pinned")
  ELSE LET count == MapGet(c.s._pinMap, tile) - 1
           c1 == IF count > 0
                 THEN [c EXCEPT !.s._pinMap = MapSet(c.s._pinMap, tile, count)]
                 ELSE [c EXCEPT !.s._pinMap = MapDel(c.s._pinMap, tile)]
       IN [c1 EXCEPT !.ret = count]

unpin(c, tile, hAsset, hTexture) ==
  IF ~MapHas(c.s._pinMap, tile) \/ MapGet(c.s._pinMap, tile) = 0
  THEN Throw(c, "TextureStore: unpin when not pinned")
  ELSE LET count == MapGet(c.s._pinMap, tile) - 1
           c1 == IF count > 0
                 THEN [c EXCEPT !.s._pinMap = MapSet(c.s._pinMap, tile, count)]
                 ELSE LET c0 == [c EXCEPT !.s._pinMap = MapDel(c.s._pinMap, tile)]
                      IN IF ~SetHas(c0.s._visible, tile) /\ ~LruHas(c0.s._previouslyVisible, tile)
                         THEN _unloadTile(c0, tile, hAsset, hTexture)
                         ELSE c0
       IN IF c1.err # NoError THEN c1 ELSE [c1 EXCEPT !.ret = count]

query(s, tile) ==
  LET pinCount == IF MapHas(s._pinMap, tile) THEN MapGet(s._pinMap, tile) ELSE 0
  IN [ visible |-> SetHas(s._visible, tile),
       previouslyVisible |-> LruHas(s._previouslyVisible, tile),
       hasAsset |-> asset(s, tile),
       hasTexture |-> texture(s, tile),
       pinned |-> pinCount # 0,
       pinCount |-> pinCount ]

\* ------------------------------------------------------- the caller's view
\* The frame protocol the comment above State documents, followed on the calls
\* the caller makes: one or more startFrame, zero or more markTile, as many
\* endFrame.  A call is in order when this protocol allows it.
MonInit == [phase |-> IDLE, open |-> 0, marks |-> {}]

MonStartOk == mon.phase = IDLE \/ mon.phase = START
MonMarkOk == mon.phase = START \/ mon.phase = MARK
MonEndOk == mon.phase = START \/ mon.phase = MARK \/ mon.phase = END

MonStart ==
  IF MonStartOk
  THEN [phase |-> START, open |-> mon.open + 1,
        marks |-> IF mon.phase = IDLE THEN {} ELSE mon.marks]
  ELSE mon

MonMark(tile) ==
  IF MonMarkOk THEN [mon EXCEPT !.phase = MARK, !.marks = @ \cup {tile}] ELSE mon

MonEnd ==
  IF MonEndOk
  THEN [mon EXCEPT !.phase = IF mon.open = 1 THEN IDLE ELSE END, !.open = @ - 1]
  ELSE mon

\* The call that is about to be made closes the caller's frame.
MonCloses == MonEndOk /\ mon.open = 1

\* Progress of a tile through: marked in a frame (1), texture loaded and not
\* marked in the next frame (2), marked again in the frame after (3).
TrailAfterFrame(tile) ==
  LET marked == tile \in mon.marks
  IN IF marked THEN (IF trail[tile] = 2 THEN 3 ELSE 1)
     ELSE IF trail[tile] \in {1, 3} /\ texture(store, tile) THEN 2
     ELSE 0

\* new TileSearcher(): an empty stack and an empty visited set.
TileSearcherConstructor == [ _stack |-> <<>>, _visited |-> SetEmpty ]

\* A geometry on which no search has been made.
NoSearch ==
  [ geometry |-> "flat", view |-> {}, empty |-> TRUE, closest |-> 1,
    _tileSearcher |-> TileSearcherConstructor,
    prior |-> <<>>, result |-> <<>>, ret |-> 0, err |-> NoError,
    op |-> "new", calls |-> 0 ]

\* No tile compared and no geometry constructed yet.
NoGeo ==
  [ op |-> "new", kind |-> "none", t |-> <<>>, u |-> <<>>, ret |-> FALSE,
    hashes |-> <<>>, levels |-> <<>>, levelList |-> <<>>, err |-> NoError ]

\* new RenderLoop(stage): not running, no frame requested.
RenderLoopConstructor ==
  [ _running |-> FALSE, _rendering |-> FALSE, _requestHandle |-> 0,
    queue |-> {}, handles |-> 0, renders |-> 0, stoppedRenders |-> 0,
    err |-> NoError, op |-> "new" ]

\* No animation started.
NoAnimation ==
  [ started |-> FALSE, cancelled |-> FALSE, rafId |-> 0, queue |-> {},
    handles |-> 0, duration |-> 1, elapsed |-> 0, updates |-> 0,
    completes |-> 0, cancels |-> 0, op |-> "new" ]

\* The objects a TextureStore or TileSearcher call does not touch.
others == <<geo, loop, anim>>

Record(c, op, tile, inOrder) ==
  /\ store' = c.s
  /\ UNCHANGED <<srch, others>>
  /\ last' = [op |-> op, tile |-> tile, err |-> c.err, ret |-> c.ret,
              ev |-> c.ev, upd |-> c.upd, inOrder |-> inOrder]

\* ------------------------------------------------------------------ actions
Init ==
  /\ \E source \in {"cube", "flat"} : store = TextureStoreConstructor(source)
  /\ now = 0
  /\ last = [op |-> "new", tile |-> 0, err |-> NoError, ret |-> 0,
             ev |-> <<>>, upd |-> FALSE, inOrder |-> TRUE]
  /\ mon = MonInit
  /\ trail = [t \in Tiles |-> 0]
  /\ netPins = [t \in Tiles |-> 0]
  /\ srch = NoSearch
  /\ geo = NoGeo
  /\ loop = RenderLoopConstructor
  /\ anim = NoAnimation

\* The number of pins not yet matched by an unpin, over all tiles.
RECURSIVE Sum(_, _)
Sum(f, S) == IF S = {} THEN 0 ELSE LET x == CHOOSE y \in S : TRUE IN f[x] + Sum(f, S \ {x})

StartFrameCall ==
  /\ store._delimCount < MaxOpen
  /\ Record(startFrame(Ctx(store)), "startFrame", 0, MonStartOk)
  /\ UNCHANGED <<now, netPins>>

\* markTile(tile), called when Date.now() returns time: the clock has stood
\* still or moved on since the last call that read it.
MarkTileCall(tile, time) ==
  /\ store._tileHitCount + store._tileMissCount < MaxMarks
  /\ time \in {now, now + 1}
  /\ time <= MaxTime
  /\ Record(markTile(Ctx(store), tile, time), "markTile", tile, MonMarkOk)
  /\ now' = IF last'.err = NoError THEN time ELSE now
  /\ UNCHANGED netPins

EndFrameCall(hAsset, hTexture) ==
  /\ store._delimCount > -MaxOpen
  /\ Record(endFrame(Ctx(store), hAsset, hTexture), "endFrame", 0, MonEndOk)
  /\ UNCHANGED <<now, netPins>>

StartFrame == StartFrameCall /\ UNCHANGED <<mon, trail>>

MarkTile(tile, time) == MarkTileCall(tile, time) /\ UNCHANGED <<mon, trail>>

EndFrame(hAsset, hTexture) == EndFrameCall(hAsset, hTexture) /\ UNCHANGED <<mon, trail>>

Pin(tile) ==
  /\ Sum(netPins, Tiles) < MaxPins
  /\ Record(pin(Ctx(store), tile), "pin", tile, TRUE)
  /\ netPins' = [netPins EXCEPT ![tile] = @ + 1]
  /\ UNCHANGED <<now, mon, trail>>

Unpin(tile, hAsset, hTexture) ==
  /\ Record(unpin(Ctx(store), tile, hAsset, hTexture), "unpin", tile, netPins[tile] > 0)
  /\ netPins' = [netPins EXCEPT ![tile] = IF @ > 0 THEN @ - 1 ELSE @]
  /\ UNCHANGED <<now, mon, trail>>

Clear(hAsset, hTexture) ==
  /\ Record(clear(Ctx(store), hAsset, hTexture), "clear", 0, TRUE)
  /\ netPins' = [t \in Tiles |-> 0]
  /\ trail' = [t \in Tiles |-> 0]
  /\ UNCHANGED <<now, mon>>

ClearNotPinned(hAsset, hTexture) ==
  /\ Record(clearNotPinned(Ctx(store), hAsset, hTexture), "clearNotPinned", 0, TRUE)
  /\ trail' = [t \in Tiles |-> 0]
  /\ UNCHANGED <<now, mon, netPins>>

\* The source and the stage complete the load of a tile's item: the callback
\* runs with no error.
LoadDone(tile, dynamic) ==
  /\ MapHas(store._itemMap, tile)
  /\ MapGet(store._itemMap, tile)._cancel
  /\ LET c == ItemCallback(Ctx(store), tile, NoError, TRUE, TRUE, dynamic)
         item == ItemAfterCallback(MapGet(store._itemMap, tile), NoError, dynamic)
     IN Record([c EXCEPT !.s._itemMap = MapSet(store._itemMap, tile, item)],
               "load", tile, TRUE)
  /\ UNCHANGED <<now, mon, trail, netPins>>

\* The load of a tile's item fails: the callback runs with an error that is
\* not a CancelError.
LoadFailed(tile, hAsset, hTexture) ==
  /\ MapHas(store._itemMap, tile)
  /\ MapGet(store._itemMap, tile)._cancel
  /\ LET c == ItemCallback(Ctx(store), tile, "Error", hAsset, hTexture, FALSE)
         item == ItemAfterCallback(MapGet(store._itemMap, tile), "Error", FALSE)
     IN Record([c EXCEPT !.s._itemMap = MapSet(store._itemMap, tile, item)],
               "error", tile, TRUE)
  /\ UNCHANGED <<now, mon, trail, netPins>>

\* Every call, in any protocol state, interleaved with the loads' completions.
Next ==
  \/ StartFrame
  \/ \E tile \in Tiles, time \in 0..MaxTime : MarkTile(tile, time)
  \/ \E hAsset, hTexture \in BOOLEAN : EndFrame(hAsset, hTexture)
  \/ \E tile \in Tiles : Pin(tile)
  \/ \E tile \in Tiles, hAsset, hTexture \in BOOLEAN : Unpin(tile, hAsset, hTexture)
  \/ \E hAsset, hTexture \in BOOLEAN : Clear(hAsset, hTexture)
  \/ \E hAsset, hTexture \in BOOLEAN : ClearNotPinned(hAsset, hTexture)
  \/ \E tile \in Tiles, dynamic \in BOOLEAN : LoadDone(tile, dynamic)
  \/ \E tile \in Tiles, hAsset, hTexture \in BOOLEAN : LoadFailed(tile, hAsset, hTexture)

Spec == Init /\ [][Next]_vars

\* A caller that makes the frame calls in the documented order, frame after
\* frame, whatever the calls answer.
CallerStartFrame ==
  /\ MonStartOk
  /\ mon.open < MaxOpen
  /\ StartFrameCall
  /\ mon' = MonStart
  /\ UNCHANGED trail

CallerMarkTile(tile, time) ==
  /\ MonMarkOk
  /\ MarkTileCall(tile, time)
  /\ mon' = MonMark(tile)
  /\ UNCHANGED trail

CallerEndFrame(hAsset, hTexture) ==
  /\ MonEndOk
  /\ EndFrameCall(hAsset, hTexture)
  /\ mon' = MonEnd
  /\ trail' = IF MonCloses THEN [t \in Tiles |-> TrailAfterFrame(t)] ELSE trail

NextCaller ==
  \/ CallerStartFrame
  \/ \E tile \in Tiles, time \in 0..MaxTime : CallerMarkTile(tile, time)
  \/ \E hAsset, hTexture \in BOOLEAN : CallerEndFrame(hAsset, hTexture)
  \/ \E tile \in Tiles : Pin(tile)
  \/ \E tile \in Tiles, dynamic \in BOOLEAN : LoadDone(tile, dynamic)

SpecCaller == Init /\ [][NextCaller]_vars

\* ------------------------------------------------------------------- claims
CountEv(ev, name, tile) == Cardinality({i \in 1..Len(ev) : ev[i] = <<name, tile>>})

\* The caller's frame has just been closed by its last endFrame.
FrameClosed == last.op = "endFrame" /\ last.inOrder /\ mon.phase = IDLE

\* C1: after every complete frame, query(t).visible is true exactly for the
\* tiles marked in that frame.
C1_VisibleIsMarked ==
  FrameClosed => \A t \in Tiles : query(store, t).visible <=> t \in mon.marks

\* C2: a tile marked in a frame, loaded, not marked in the next frame and
\* marked again in the frame after is, when that frame closes, back in visible
\* and out of previouslyVisible, with no textureStartLoad and no textureUnload.
C2_PromotedWithoutLoad ==
  \A t \in Tiles :
    (FrameClosed /\ trail[t] = 3) =>
      /\ query(store, t).visible
      /\ ~query(store, t).previouslyVisible
      /\ CountEv(last.ev, "textureStartLoad", t) = 0
      /\ CountEv(last.ev, "textureUnload", t) = 0

Rejected ==
  \/ last'.op = "startFrame" /\ store._state \in {MARK, END}
  \/ last'.op = "markTile" /\ store._state \in {IDLE, END}
  \/ last'.op = "endFrame" /\ store._state = IDLE

C5_RejectedCallsChangeNothing ==
  [][Rejected =>
       /\ last'.err # NoError
       /\ store'._state = store._state
       /\ store'._delimCount = store._delimCount
       /\ store'._newVisible = store._newVisible
       /\ store'._tileHitCount = store._tileHitCount
       /\ store'._tileMissCount = store._tileMissCount]_vars

\* C5 witness: markTile has been rejected in END, after a frame that marked a
\* tile and counted a miss.
C5_Witness ==
  /\ last.op = "markTile" /\ last.err # NoError
  /\ store._state = END
  /\ SetSize(store._newVisible) > 0
  /\ store._tileMissCount > 0

\* C6: of k startFrame calls followed by k endFrame calls, the first k-1
\* endFrame calls run no update and leave visible, previouslyVisible and the
\* item map unchanged and the state away from IDLE; the k-th runs the update
\* once and returns the state to IDLE.
C6_UpdateOnLastEndFrame ==
  [][(last'.op = "endFrame" /\ store._state # IDLE /\ store._delimCount >= 1) =>
       IF store._delimCount > 1
       THEN /\ ~last'.upd
            /\ store'._visible = store._visible
            /\ store'._previouslyVisible = store._previouslyVisible
            /\ store'._itemMap = store._itemMap
            /\ store'._state # IDLE
       ELSE /\ last'.upd
            /\ store'._state = IDLE]_vars

\* C7: destroying an item whose load is in flight completes the load with a
\* CancelError: exactly one textureCancel, no textureError, textureLoad or
\* textureUnload, and what the callback is handed is destroyed exactly once.
\* It holds of the unload of every in-flight item of every reachable store,
\* and of every call that has cancelled a load.
C7_CancelOnDestroy ==
  /\ \A t \in DOMAIN store._itemMap : \A hAsset \in BOOLEAN, hTexture \in BOOLEAN :
       MapGet(store._itemMap, t)._cancel =>
         LET c == _unloadTile(Ctx(store), t, hAsset, hTexture)
         IN /\ c.err = NoError
            /\ ~MapHas(c.s._itemMap, t)
            /\ CountEv(c.ev, "textureCancel", t) = 1
            /\ CountEv(c.ev, "textureError", t) = 0
            /\ CountEv(c.ev, "textureLoad", t) = 0
            /\ CountEv(c.ev, "textureUnload", t) = 0
            /\ CountEv(c.ev, "asset.destroy", t) = (IF hAsset THEN 1 ELSE 0)
            /\ CountEv(c.ev, "texture.destroy", t) = (IF hTexture THEN 1 ELSE 0)
  /\ \A t \in Tiles :
       CountEv(last.ev, "textureCancel", t) > 0 =>
         /\ CountEv(last.ev, "textureCancel", t) = 1
         /\ CountEv(last.ev, "textureError", t) = 0
         /\ CountEv(last.ev, "textureLoad", t) = 0
         /\ CountEv(last.ev, "textureUnload", t) = 0
         /\ CountEv(last.ev, "asset.destroy", t) <= 1
         /\ CountEv(last.ev, "texture.destroy", t) <= 1
         /\ ~MapHas(store._itemMap, t)

\* C7 witness: an unpin has destroyed an in-flight item that had been handed an
\* asset and a texture.
C7_Witness ==
  /\ last.op = "unpin"
  /\ last.ev = << <<"asset.destroy", last.tile>>, <<"texture.destroy", last.tile>>,
                  <<"textureCancel", last.tile>> >>

\* C8: pin and unpin return the new reference count of the tile, the pin count
\* query reports is the number of pins less the number of unpins, and pinned is
\* true exactly when that count is greater than zero.
C8_PinCount ==
  /\ \A t \in Tiles :
       /\ query(store, t).pinCount = netPins[t]
       /\ query(store, t).pinned <=> netPins[t] > 0
  /\ (last.op = "pin" \/ (last.op = "unpin" /\ last.inOrder)) =>
       /\ last.err = NoError
       /\ last.ret = netPins[last.tile]

\* C8 witness: a tile pinned twice has been unpinned once, and is still pinned.
C8_Witness ==
  /\ last.op = "unpin" /\ last.err = NoError /\ last.ret = 1
  /\ query(store, last.tile).pinned

\* C9: the unpin that brings the count of a tile to zero removes the tile from
\* the pinned set, and unloads its item if and only if the tile is in neither
\* visible nor previouslyVisible.
C9_UnpinToZero ==
  [][\A t \in Tiles :
       (last'.op = "unpin" /\ last'.tile = t /\ last'.err = NoError
          /\ query(store, t).pinCount = 1 /\ store' # store) =>
         /\ ~MapHas(store'._pinMap, t)
         /\ ~query(store', t).pinned
         /\ IF query(store, t).visible \/ query(store, t).previouslyVisible
            THEN /\ MapHas(store'._itemMap, t)
                 /\ last'.ev = <<>>
            ELSE /\ ~MapHas(store'._itemMap, t)
                 /\ CountEv(last'.ev, "textureUnload", t)
                      + CountEv(last'.ev, "textureCancel", t) = 1]_vars

\* C9 witness: the last unpin of a loaded tile has unloaded it.
C9_Witness ==
  /\ last.op = "unpin" /\ last.err = NoError /\ last.ret = 0
  /\ ~MapHas(store._itemMap, last.tile)
  /\ CountEv(last.ev, "textureUnload", last.tile) = 1

\* C10: the pin of a tile that has no item emits textureStartLoad inside the
\* call, whatever the protocol state; the pin of a tile that has an item starts
\* no load.
C10_PinStartsLoadOnce ==
  [][\A t \in Tiles :
       (last'.op = "pin" /\ last'.tile = t /\ store' # store) =>
         IF MapHas(store._itemMap, t)
         THEN /\ last'.ev = <<>>
              /\ MapGet(store'._itemMap, t) = MapGet(store._itemMap, t)
         ELSE /\ last'.ev = << <<"textureStartLoad", t>> >>
              /\ MapHas(store'._itemMap, t)
              /\ MapGet(store'._itemMap, t)._cancel]_vars

\* C10 witness: a pin made in the middle of a frame, of a tile not marked in
\* it, has started the load.
C10_Witness ==
  /\ last.op = "pin" /\ store._state = MARK
  /\ ~SetHas(store._newVisible, last.tile)
  /\ last.ev = << <<"textureStartLoad", last.tile>> >>

\* C11: unpin of a tile whose pin count is zero throws and leaves the pinned
\* set, the item map, visible and previouslyVisible unchanged.
C11_UnpinUnpinnedThrows ==
  [][\A t \in Tiles :
       (last'.op = "unpin" /\ last'.tile = t /\ query(store, t).pinCount = 0) =>
         /\ last'.err # NoError
         /\ store'._pinMap = store._pinMap
         /\ store'._itemMap = store._itemMap
         /\ store'._visible = store._visible
         /\ store'._previouslyVisible = store._previouslyVisible]_vars

\* C11 witness: an unpin of a tile that is not pinned has thrown while another
\* tile is pinned and has its item.
C11_Witness ==
  /\ last.op = "unpin" /\ last.err # NoError
  /\ query(store, last.tile).pinCount = 0
  /\ \E u \in Tiles : u # last.tile /\ query(store, u).pinned /\ MapHas(store._itemMap, u)

\* C13: whenever the store is IDLE, every tile that has an item is in visible,
\* in previouslyVisible or pinned.
C13_IdleItemsAreHeld ==
  store._state = IDLE =>
    \A t \in DOMAIN store._itemMap :
      \/ query(store, t).visible
      \/ query(store, t).previouslyVisible
      \/ query(store, t).pinned

\* C13 witness: in IDLE, the last unpin of a tile has removed its item and
\* another tile keeps its item.
C13_Witness ==
  /\ store._state = IDLE
  /\ last.op = "unpin" /\ last.err = NoError /\ last.ret = 0
  /\ ~MapHas(store._itemMap, last.tile)
  /\ DOMAIN store._itemMap # {}

\* The load of the tile's item is in flight.
InFlight(s, tile) == MapHas(s._itemMap, tile) /\ MapGet(s._itemMap, tile)._cancel

Completions(ev, tile) ==
  CountEv(ev, "textureLoad", tile) + CountEv(ev, "textureError", tile)
    + CountEv(ev, "textureCancel", tile)

\* C14: every textureStartLoad begins a load that ends with exactly one of
\* textureLoad, textureError and textureCancel: a call emits one of them only
\* for a load that is in flight, a load stays in flight until one of them is
\* emitted, and the callback firing or the item being destroyed emits it.
C14_OneCompletionPerLoad ==
  [][\A t \in Tiles :
       LET before == IF InFlight(store, t) THEN 1 ELSE 0
           after == IF InFlight(store', t) THEN 1 ELSE 0
           starts == CountEv(last'.ev, "textureStartLoad", t)
           ends == Completions(last'.ev, t)
       IN /\ ends <= before + starts
          /\ after = before + starts - ends
          /\ (last'.op \in {"load", "error"} /\ last'.tile = t) => ends = 1]_vars

\* C14 witness: the load of a tile has ended in textureLoad, and is no longer
\* in flight.
C14_Witness ==
  /\ last.op = "load"
  /\ CountEv(last.ev, "textureLoad", last.tile) = 1
  /\ texture(store, last.tile)
  /\ ~InFlight(store, last.tile)

MarkSeqs == UNION {[1..n -> Tiles] : n \in 0..MaxSeq}

Range(q) == {q[i] : i \in 1..Len(q)}

\* markTile(q[1]); ...; markTile(q[Len(q)]).
RECURSIVE MarkEach(_, _)
MarkEach(c, q) ==
  IF q = <<>> \/ c.err # NoError THEN c
  ELSE MarkEach(markTile(c, Head(q), now), Tail(q))

\* What the endFrame that closes the frame leaves behind once the tiles of q
\* have been marked, in this order: the sets, the item map, and the tiles
\* loaded, cancelled and unloaded.
FrameEffects(s, q) ==
  LET c == endFrame(MarkEach(Ctx(s), q), FALSE, FALSE)
      Evs(name) == {t \in Tiles : CountEv(c.ev, name, t) > 0}
  IN [ visible |-> Range(c.s._visible),
       previouslyVisible |-> Range(c.s._previouslyVisible),
       itemMap |-> c.s._itemMap,
       loaded |-> Evs("textureStartLoad"),
       cancelled |-> Evs("textureCancel"),
       unloaded |-> Evs("textureUnload"),
       err |-> c.err,
       upd |-> c.upd ]

FlatTile(x, y) == 1 + x + FlatW * y
FlatX(tile) == (tile - 1) % FlatW
FlatY(tile) == (tile - 1) \div FlatW

faceList == <<"f", "u", "d", "l", "r", "b">>

indexOf(face) == CHOOSE i \in 1..Len(faceList) : faceList[i] = face

CubeTile(face) == indexOf(face)
CubeFace(tile) == faceList[tile]

\* The tiles per face edge of the cube level.
cubeNumTiles == 1

adjacentFace ==
  [ f |-> <<"l", "r", "u", "d">>,
    b |-> <<"r", "l", "u", "d">>,
    l |-> <<"b", "f", "u", "d">>,
    r |-> <<"f", "b", "u", "d">>,
    u |-> <<"l", "r", "b", "f">>,
    d |-> <<"l", "r", "f", "b">> ]

neighborOffsets == << <<0, 1>>, <<1, 0>>, <<0, -1>>, <<-1, 0>> >>

LevelTiles(geometry) ==
  IF geometry = "flat" THEN 1..(FlatW * FlatH) ELSE 1..Len(faceList)

\* FlatTile#neighbors: the offsets that stay inside the level, in order.
RECURSIVE FlatNeighborsFrom(_, _)
FlatNeighborsFrom(tile, i) ==
  IF i > Len(neighborOffsets) THEN <<>>
  ELSE LET newX == FlatX(tile) + neighborOffsets[i][1]
           newY == FlatY(tile) + neighborOffsets[i][2]
           numX == FlatW - 1
           numY == FlatH - 1
       IN (IF 0 <= newX /\ newX <= numX /\ 0 <= newY /\ newY <= numY
           THEN <<FlatTile(newX, newY)>> ELSE <<>>)
          \o FlatNeighborsFrom(tile, i + 1)

FlatNeighbors(tile) == FlatNeighborsFrom(tile, 1)

\* CubeTile#neighbors on a level of one tile per face: every offset leaves the
\* face, and the coordinates on the adjacent face are clamped to 0.
RECURSIVE CubeNeighborsFrom(_, _)
CubeNeighborsFrom(tile, i) ==
  IF i > Len(neighborOffsets) THEN <<>>
  ELSE LET face == CubeFace(tile)
           newX == 0 + neighborOffsets[i][1]
           newY == 0 + neighborOffsets[i][2]
           numX == cubeNumTiles
           numY == cubeNumTiles
           newFace == IF newX < 0 THEN adjacentFace[face][1]
                      ELSE IF newX >= numX THEN adjacentFace[face][2]
                      ELSE IF newY < 0 THEN adjacentFace[face][3]
                      ELSE IF newY >= numY THEN adjacentFace[face][4]
                      ELSE face
       IN <<CubeTile(newFace)>> \o CubeNeighborsFrom(tile, i + 1)

CubeNeighbors(tile) == CubeNeighborsFrom(tile, 1)

neighbors(geometry, tile) ==
  IF geometry = "flat" THEN FlatNeighbors(tile) ELSE CubeNeighbors(tile)

\* view.intersects(tile.vertices()): a view is the set of the tiles of the
\* level that its frustum intersects.
intersects(view, tile) == tile \in view

\* ------------------------------------------------------------ TileSearcher
\* A loop body that leaves a tile already visited on the stack.
LoopBody_keepVisited(geometry, view, r) ==
  LET tile == r.stack[Len(r.stack)]
      popped == [r EXCEPT !.stack = SubSeq(r.stack, 1, Len(r.stack) - 1)]
  IN IF SetHas(r.visited, tile) THEN r
     ELSE IF ~intersects(view, tile) THEN popped
     ELSE [ stack |-> popped.stack \o neighbors(geometry, tile),
            visited |-> SetAdd(popped.visited, tile),
            result |-> Append(popped.result, tile),
            count |-> popped.count + 1 ]

\* One pass through the body of the while loop of search, the stack not being
\* empty: r = [stack, visited, result, count].
LoopBody(geometry, view, r) ==
  LET tile == r.stack[Len(r.stack)]
      popped == [r EXCEPT !.stack = SubSeq(r.stack, 1, Len(r.stack) - 1)]
  IN IF SetHas(popped.visited, tile) THEN popped
     ELSE IF ~intersects(view, tile) THEN popped
     ELSE [ stack |-> popped.stack \o neighbors(geometry, tile),
            visited |-> SetAdd(popped.visited, tile),
            result |-> Append(popped.result, tile),
            count |-> popped.count + 1 ]

\* The while loop of search.
RECURSIVE SearchLoop(_, _, _)
SearchLoop(geometry, view, r) ==
  IF Len(r.stack) = 0 THEN r
  ELSE SearchLoop(geometry, view, LoopBody(geometry, view, r))

\* TileSearcher#_clear.
_clear(this) == [ this EXCEPT !._stack = <<>>, !._visited = SetClear(@) ]

\* The loop without the test of view.intersects.
search_noIntersects(this, geometry, view, startingTile, result) ==
  LET cleared == _clear(this)
      r == SearchLoop(geometry, LevelTiles(geometry),
                      [ stack |-> Append(cleared._stack, startingTile),
                        visited |-> cleared._visited,
                        result |-> result, count |-> 0 ])
  IN [ this |-> _clear([ _stack |-> r.stack, _visited |-> r.visited ]),
       result |-> r.result, ret |-> r.count ]

\* The loop that stops after the first visible tile.
search_first(this, geometry, view, startingTile, result) ==
  IF intersects(view, startingTile)
  THEN [ this |-> _clear(this), result |-> Append(result, startingTile), ret |-> 1 ]
  ELSE [ this |-> _clear(this), result |-> result, ret |-> 0 ]

\* search that never clears the stack and the visited set.
search_noClear(this, geometry, view, startingTile, result) ==
  LET r == SearchLoop(geometry, view,
                      [ stack |-> Append(this._stack, startingTile),
                        visited |-> this._visited,
                        result |-> result, count |-> 0 ])
  IN [ this |-> [ _stack |-> r.stack, _visited |-> r.visited ],
       result |-> r.result, ret |-> r.count ]

\* TileSearcher#search on the searcher this: the searcher and the result array
\* after the call, and the count returned.
search(this, geometry, view, startingTile, result) ==
  LET cleared == _clear(this)
      r == SearchLoop(geometry, view,
                      [ stack |-> Append(cleared._stack, startingTile),
                        visited |-> cleared._visited,
                        result |-> result, count |-> 0 ])
  IN [ this |-> _clear([ _stack |-> r.stack, _visited |-> r.visited ]),
       result |-> r.result, ret |-> r.count ]

\* visibleTiles: empty is view.size() having zero width or height, closest is
\* the tile _closestTile(view, level) returns, this the geometry's searcher.
CubeVisibleTiles(this, view, empty, closest, result) ==
  IF empty THEN [this |-> this, result |-> result, ret |-> 0, err |-> NoError]
  ELSE LET found == search(this, "cube", view, closest, result)
       IN IF found.ret = 0
          THEN [this |-> found.this, result |-> found.result, ret |-> 0,
                err |-> "Starting tile is not visible"]
          ELSE [this |-> found.this, result |-> found.result, ret |-> found.ret,
                err |-> NoError]

\* visibleTiles that returns the result whatever the count.
FlatVisibleTiles_noThrow(this, view, empty, closest, result) ==
  IF empty THEN [this |-> this, result |-> result, ret |-> 0, err |-> NoError]
  ELSE LET found == search(this, "flat", view, closest, result)
       IN [this |-> found.this, result |-> found.result, ret |-> found.ret,
           err |-> NoError]

FlatVisibleTiles(this, view, empty, closest, result) ==
  IF empty THEN [this |-> this, result |-> result, ret |-> 0, err |-> NoError]
  ELSE LET found == search(this, "flat", view, closest, result)
       IN IF found.ret = 0
          THEN [this |-> found.this, result |-> found.result, ret |-> 0,
                err |-> "Starting tile is not visible"]
          ELSE [this |-> found.this, result |-> found.result, ret |-> found.ret,
                err |-> NoError]

\* A geometry, a view of its level, and the tile closest to the view's centre.
InitSearch ==
  /\ store = TextureStoreConstructor("cube")
  /\ now = 0
  /\ last = [op |-> "new", tile |-> 0, err |-> NoError, ret |-> 0,
             ev |-> <<>>, upd |-> FALSE, inOrder |-> TRUE]
  /\ mon = MonInit
  /\ trail = [t \in Tiles |-> 0]
  /\ netPins = [t \in Tiles |-> 0]
  /\ geo = NoGeo
  /\ loop = RenderLoopConstructor
  /\ anim = NoAnimation
  /\ \E geometry \in {"flat", "cube"} :
       \E view \in SUBSET LevelTiles(geometry), closest \in LevelTiles(geometry),
          empty \in BOOLEAN :
         srch = [NoSearch EXCEPT !.geometry = geometry, !.view = view,
                                 !.empty = empty, !.closest = closest]

\* tileSearcher.search(view, closest, result), the result array being the one
\* the last call returned.
SearchCall ==
  /\ srch.calls < MaxCalls
  /\ LET found == search(srch._tileSearcher, srch.geometry, srch.view, srch.closest,
                         srch.result)
     IN srch' = [srch EXCEPT !._tileSearcher = found.this,
                             !.prior = srch.result, !.result = found.result,
                             !.ret = found.ret, !.err = NoError,
                             !.op = "search", !.calls = @ + 1]
  /\ UNCHANGED <<store, now, last, mon, trail, netPins, others>>

CubeVisibleTilesCall ==
  /\ srch.calls < MaxCalls
  /\ srch.geometry = "cube"
  /\ LET out == CubeVisibleTiles(srch._tileSearcher, srch.view, srch.empty, srch.closest,
                                   srch.result)
     IN srch' = [srch EXCEPT !._tileSearcher = out.this,
                             !.prior = srch.result, !.result = out.result,
                             !.ret = out.ret, !.err = out.err,
                             !.op = "visibleTiles", !.calls = @ + 1]
  /\ UNCHANGED <<store, now, last, mon, trail, netPins, others>>

FlatVisibleTilesCall ==
  /\ srch.calls < MaxCalls
  /\ srch.geometry = "flat"
  /\ LET out == FlatVisibleTiles(srch._tileSearcher, srch.view, srch.empty, srch.closest,
                                   srch.result)
     IN srch' = [srch EXCEPT !._tileSearcher = out.this,
                             !.prior = srch.result, !.result = out.result,
                             !.ret = out.ret, !.err = out.err,
                             !.op = "visibleTiles", !.calls = @ + 1]
  /\ UNCHANGED <<store, now, last, mon, trail, netPins, others>>

NextSearch ==
  \/ SearchCall
  \/ CubeVisibleTilesCall
  \/ FlatVisibleTilesCall

SpecSearch == InitSearch /\ [][NextSearch]_vars

\* search() taken one pass of its loop at a time.  The call starts: the
\* searcher is cleared and the starting tile pushed.
BeginSearch ==
  /\ srch.op \in {"new", "search"}
  /\ srch.calls < MaxCalls
  /\ srch' = [srch EXCEPT !._tileSearcher =
                             [ _clear(@) EXCEPT !._stack = <<srch.closest>> ],
                          !.prior = srch.result, !.ret = 0, !.err = NoError,
                          !.op = "loop"]
  /\ UNCHANGED <<store, now, last, mon, trail, netPins, others>>

LoopStep ==
  /\ srch.op = "loop"
  /\ Len(srch._tileSearcher._stack) > 0
  /\ LET r == LoopBody(srch.geometry, srch.view,
                       [ stack |-> srch._tileSearcher._stack,
                         visited |-> srch._tileSearcher._visited,
                         result |-> srch.result, count |-> srch.ret ])
     IN srch' = [srch EXCEPT !._tileSearcher = [ _stack |-> r.stack, _visited |-> r.visited ],
                             !.result = r.result, !.ret = r.count]
  /\ UNCHANGED <<store, now, last, mon, trail, netPins, others>>

\* The loop has ended: the searcher is cleared and the count returned.
EndSearch ==
  /\ srch.op = "loop"
  /\ Len(srch._tileSearcher._stack) = 0
  /\ srch' = [srch EXCEPT !._tileSearcher = _clear(@), !.op = "search",
                          !.calls = @ + 1]
  /\ UNCHANGED <<store, now, last, mon, trail, netPins, others>>

NextSearchSteps ==
  \/ BeginSearch
  \/ LoopStep
  \/ EndSearch

\* A call that has started goes on: nothing else runs while search does.
SpecSearchSteps ==
  InitSearch /\ [][NextSearchSteps]_vars /\ WF_vars(LoopStep) /\ WF_vars(EndSearch)

\* What the last call appended to the result array.
Appended == SubSeq(srch.result, Len(srch.prior) + 1, Len(srch.result))

\* The visible tiles that a chain of visible neighbors joins to the starting
\* tile: the least set that holds the starting tile, if visible, and every
\* visible neighbor of its members.
RECURSIVE ReachFrom(_, _, _)
ReachFrom(geometry, view, R) ==
  LET more == {u \in view : \E t \in R : SeqHas(neighbors(geometry, t), u)}
  IN IF more \subseteq R THEN R ELSE ReachFrom(geometry, view, R \cup more)

Reach(geometry, view, startingTile) ==
  IF startingTile \in view THEN ReachFrom(geometry, view, {startingTile}) ELSE {}

\* C18: search never appends a tile that the view does not intersect.
C18_OnlyVisibleAppended ==
  srch.op \in {"search", "visibleTiles"} =>
    \A i \in 1..Len(Appended) : intersects(srch.view, Appended[i])

\* C18 witness: a search has appended tiles and left out a neighbor of the
\* starting tile that the view does not intersect.
C18_Witness ==
  /\ srch.op = "search" /\ Len(Appended) >= 2
  /\ \E u \in Range(neighbors(srch.geometry, srch.closest)) : ~intersects(srch.view, u)

\* C19: search appends, once each, exactly the tiles of the level that a chain
\* of visible neighbors joins to a visible starting tile, keeps what the array
\* held, and returns the number of tiles it appended.
C19_ReachableOnceEach ==
  srch.op = "search" =>
    /\ Range(Appended) = Reach(srch.geometry, srch.view, srch.closest)
    /\ Cardinality(Range(Appended)) = Len(Appended)
    /\ SubSeq(srch.result, 1, Len(srch.prior)) = srch.prior
    /\ srch.ret = Len(Appended)

\* C19 witness: a search has appended a tile that is no neighbor of the
\* starting tile, reached through a chain of visible neighbors.
C19_Witness ==
  /\ srch.op = "search"
  /\ \E t \in Range(Appended) :
       t # srch.closest /\ ~SeqHas(neighbors(srch.geometry, srch.closest), t)

\* C20: when the view does not intersect the starting tile, search appends
\* nothing and returns 0, and visibleTiles, of either geometry and with a
\* viewport that is not empty, throws 'Starting tile is not visible'.
C20_StartNotVisible ==
  ~intersects(srch.view, srch.closest) =>
    /\ srch.op = "search" => (srch.result = srch.prior /\ srch.ret = 0)
    /\ (srch.op = "visibleTiles" /\ ~srch.empty) =>
         (srch.err = "Starting tile is not visible" /\ srch.result = srch.prior)

\* C20 witness: visibleTiles of the flat geometry has thrown for a view that
\* intersects tiles of the level, the starting tile not among them.
C20_Witness ==
  /\ srch.op = "visibleTiles" /\ srch.geometry = "flat" /\ ~srch.empty
  /\ srch.err = "Starting tile is not visible"
  /\ srch.view # {}


\* C30: search() leaves the searcher's stack and visited set empty and keeps
\* the elements the result array already had, so a search on a searcher that
\* was used before returns what a new TileSearcher returns for the same view
\* and starting tile.
C30_SearcherReusable ==
  srch.op \in {"search", "visibleTiles"} =>
    /\ srch._tileSearcher._stack = <<>>
    /\ SetSize(srch._tileSearcher._visited) = 0
    /\ SubSeq(srch.result, 1, Len(srch.prior)) = srch.prior
    /\ srch.op = "search" =>
         LET fresh == search(TileSearcherConstructor, srch.geometry, srch.view,
                             srch.closest, <<>>)
         IN Appended = fresh.result /\ srch.ret = fresh.ret

\* C30 witness: the second search on the same searcher, after a first one that
\* found tiles, has appended several tiles to the result.
C30_Witness ==
  /\ srch.op = "search" /\ srch.calls = 2
  /\ Len(srch.prior) >= 2
  /\ Len(Appended) >= 2

\* C31: search() terminates on every finite level and for every view: each
\* visible tile is expanded (appended and its neighbours pushed) at most once,
\* and a search that has started reaches the end of its loop with the stack
\* empty.
C31_SearchTerminates ==
  /\ [](\A i \in 1..Len(Appended), j \in 1..Len(Appended) :
          Appended[i] = Appended[j] => i = j)
  /\ (srch.op = "loop") ~> (srch.op = "search" /\ srch._tileSearcher._stack = <<>>)

\* C31 witness: a search has ended after expanding three tiles or more, each
\* of which was pushed again by a neighbour.
C31_Witness ==
  /\ srch.op = "search" /\ srch.calls = 1
  /\ Len(Appended) >= 3

\* C32: every accepted markTile call increments exactly one of the hit and
\* the miss counter, the hit counter exactly when the tile has an item with a
\* loaded texture at the call; no other call changes either counter.  Both
\* start at zero, so their sum is the number of accepted markTile calls.
C32_HitOrMiss ==
  [][LET hits == store'._tileHitCount - store._tileHitCount
         misses == store'._tileMissCount - store._tileMissCount
     IN IF last'.op = "markTile" /\ last'.err = NoError
        THEN /\ hits + misses = 1
             /\ hits \in {0, 1}
             /\ hits = 1 <=> texture(store, last'.tile)
        ELSE hits = 0 /\ misses = 0]_vars

\* C32 witness: markTile calls have counted a hit and a miss, the miss for a
\* tile whose item was still loading.
C32_Witness ==
  /\ last.op = "markTile" /\ last.err = NoError
  /\ store._tileHitCount = 1 /\ store._tileMissCount = 1
  /\ InFlight(store, last.tile)

\* C33: Set.forEach(fn) calls fn exactly once for each element of the set,
\* returns, and leaves the set as it was; here for the sets of the store, the
\* visible and the newly marked tiles, and for the update pass that iterates
\* over them.
C33_ForEachVisitsAll ==
  /\ \A set \in {store._visible, store._newVisible} :
       LET r == SetForEach(set)
       IN /\ r.err = NoError
          /\ Len(r.visited) = SetSize(set)
          /\ \A i \in 1..Len(set) : SeqHas(r.visited, set[i])
  /\ last.upd => last.err # TypeError

\* C35: in every reachable state the open-frame counter is not negative, and
\* it is zero exactly when the store is in state IDLE.
C35_CounterAndIdle ==
  /\ store._delimCount >= 0
  /\ store._delimCount = 0 <=> store._state = IDLE

\* C36: when the frame calls are made in protocol order and every unpin
\* matches an earlier pin, no endFrame, pin, unpin, clear or clearNotPinned
\* call throws, and the last endFrame of every frame returns the store to IDLE.
\* The caller of SpecCaller is such a caller: it pins and never unpins.
C36_InOrderNeverThrows ==
  /\ last.op \in {"endFrame", "pin", "unpin", "clear", "clearNotPinned"}
       => last.err = NoError
  /\ (last.op = "endFrame" /\ mon.open = 0) => store._state = IDLE

\* C37: textureUnload is emitted for a tile only if the same item emitted
\* textureLoad before, that is, only by an item that holds a texture; an item
\* whose load was cancelled or failed never emits textureUnload.
C37_UnloadOnlyAfterLoad ==
  [][\A t \in Tiles :
       CountEv(last'.ev, "textureUnload", t) > 0 => texture(store, t)]_vars

\* The sum of the estimates recorded for the tiles of the item map, as
\* JavaScript adds them.
RECURSIVE RecordedMemory(_, _)
RecordedMemory(s, tiles) ==
  IF tiles = <<>> THEN 0
  ELSE Plus(IF MapHas(s._tileMemoryMap, Head(tiles))
            THEN MapGet(s._tileMemoryMap, Head(tiles)) ELSE 0,
            RecordedMemory(s, Tail(tiles)))

\* C40: in every reachable state gpuMemoryUsage() is the sum of the estimates
\* recorded for exactly the tiles of the item map; it is 0 when the item map is
\* empty and it is never negative (a NaN is equal to no number and is not at
\* least 0).
C40_MemoryIsSumOfItems ==
  LET usage == gpuMemoryUsage(store)
  IN /\ usage # NaN
     /\ usage = RecordedMemory(store, MapKeys(store._itemMap))
     /\ store._itemMap = MapEmpty => usage = 0
     /\ usage >= 0

\* The events of a call that concern a tile's texture.
TextureEvents(ev, tile) ==
  CountEv(ev, "textureUnload", tile) + CountEv(ev, "textureCancel", tile)

\* C23: clear() removes every item, pinned or not: afterwards the item map,
\* visible, previouslyVisible, the pinned set and the newly marked set are
\* empty and gpuMemoryUsage() is 0; each removed item has emitted textureUnload
\* if its load had settled and textureCancel if it was still loading.
C23_ClearRemovesAll ==
  [][last'.op = "clear" =>
       /\ last'.err = NoError
       /\ store'._itemMap = MapEmpty /\ store'._pinMap = MapEmpty
       /\ SetSize(store'._visible) = 0 /\ store'._previouslyVisible = <<>>
       /\ SetSize(store'._newVisible) = 0
       /\ \A t \in Tiles :
            /\ ~query(store', t).visible /\ ~query(store', t).previouslyVisible
            /\ ~query(store', t).pinned
            /\ CountEv(last'.ev, "textureUnload", t) =
                 (IF MapHas(store._itemMap, t) /\ ~InFlight(store, t) THEN 1 ELSE 0)
            /\ CountEv(last'.ev, "textureCancel", t) =
                 (IF InFlight(store, t) THEN 1 ELSE 0)
       /\ gpuMemoryUsage(store') = 0]_vars

NumGeometries == 2
MaxCoord == 1
MaxSize == 3
MaxLevels == 2

\* hash(a, b, ...) of util/hash.js: an integer that depends on the arguments
\* and on nothing else.
RECURSIVE hashFrom(_, _, _)
hashFrom(args, i, h) ==
  IF i > Len(args) THEN h
  ELSE hashFrom(args, i + 1, (h * 33 + args[i] + 1) % 65536)

hashArgs(args) == hashFrom(args, 1, 0)

\* new CubeTile(face, x, y, z, geometry); the geometry is an object identity.
NewCubeTile(face, x, y, z, geometry) ==
  [ face |-> face, x |-> x, y |-> y, z |-> z, _geometry |-> geometry ]

\* new FlatTile(x, y, z, geometry).
NewFlatTile(x, y, z, geometry) ==
  [ x |-> x, y |-> y, z |-> z, _geometry |-> geometry ]

CubeTileHash(this) == hashArgs(<<indexOf(this.face), this.z, this.y, this.x>>)

FlatTileHash(this) == hashArgs(<<this.z, this.y, this.x>>)

CubeTileEquals_noGeometry(this, that) ==
  /\ this.face = that.face
  /\ this.z = that.z
  /\ this.y = that.y
  /\ this.x = that.x

CubeTileEquals(this, that) ==
  /\ this._geometry = that._geometry
  /\ this.face = that.face
  /\ this.z = that.z
  /\ this.y = that.y
  /\ this.x = that.x

FlatTileEquals(this, that) ==
  /\ this._geometry = that._geometry
  /\ this.z = that.z
  /\ this.y = that.y
  /\ this.x = that.x

Coords == 0..MaxCoord

CubeTiles ==
  { NewCubeTile(faceList[f], x, y, z, g) :
      f \in 1..Len(faceList), x \in Coords, y \in Coords, z \in Coords,
      g \in 1..NumGeometries }

FlatTiles ==
  { NewFlatTile(x, y, z, g) :
      x \in Coords, y \in Coords, z \in Coords, g \in 1..NumGeometries }

\* Level.prototype.numHorizontalTiles / numVerticalTiles: the pixel size over
\* the tile size, rounded up.
ceilDiv(a, b) == (a + b - 1) \div b

numHorizontalTiles(level) == ceilDiv(level.width, level.tileWidth)

numVerticalTiles(level) == ceilDiv(level.height, level.tileHeight)

\* new CubeLevel(levelProperties): width() and height() are the size,
\* tileWidth() and tileHeight() the tile size.
CubeLevel(levelProperties) ==
  [ level |-> [ width |-> levelProperties.size, height |-> levelProperties.size,
                tileWidth |-> levelProperties.tileSize,
                tileHeight |-> levelProperties.tileSize ],
    err |-> IF levelProperties.size % levelProperties.tileSize # 0
            THEN "Level size is not multiple of tile size" ELSE NoError ]

\* new FlatLevel(levelProperties).
FlatLevel(levelProperties) ==
  [ level |-> [ width |-> levelProperties.width, height |-> levelProperties.height,
                tileWidth |-> levelProperties.tileWidth,
                tileHeight |-> levelProperties.tileHeight ],
    err |-> NoError ]

\* CubeLevel.prototype._validateWithParentLevel: the error it throws.
CubeValidateWithParentLevel(this, parentLevel) ==
  IF this.width % parentLevel.width # 0
  THEN [ err |-> "Level width must be multiple of parent level" ]
  ELSE IF this.height % parentLevel.height # 0
  THEN [ err |-> "Level height must be multiple of parent level" ]
  ELSE IF numHorizontalTiles(this) % numHorizontalTiles(parentLevel) # 0
  THEN [ err |-> "Number of horizontal tiles must be multiple of parent level" ]
  ELSE IF numVerticalTiles(this) % numVerticalTiles(parentLevel) # 0
  THEN [ err |-> "Number of vertical tiles must be multiple of parent level" ]
  ELSE [ err |-> NoError ]

\* FlatLevel.prototype._validateWithParentLevel of geometries/Flat.js: the
\* Error object is returned to the caller, nothing is thrown.
FlatValidateWithParentLevel(this, parentLevel) ==
  IF this.width % parentLevel.width # 0
  THEN [ ret |-> "Level width must be multiple of parent level", err |-> NoError ]
  ELSE IF this.height % parentLevel.height # 0
  THEN [ ret |-> "Level height must be multiple of parent level", err |-> NoError ]
  ELSE IF this.tileWidth % parentLevel.tileWidth # 0
  THEN [ ret |-> "Level tile width must be multiple of parent level", err |-> NoError ]
  ELSE IF this.tileHeight % parentLevel.tileHeight # 0
  THEN [ ret |-> "Level tile height must be multiple of parent level", err |-> NoError ]
  ELSE [ ret |-> "undefined", err |-> NoError ]

\* makeLevelList(levelPropertiesList, LevelClass) of geometries/common.js:
\* one level per entry, in the order given; the first constructor that throws
\* ends it.
RECURSIVE makeLevelListFrom(_, _, _, _)
makeLevelListFrom(levelPropertiesList, kind, i, list) ==
  IF i > Len(levelPropertiesList) THEN [ list |-> list, err |-> NoError ]
  ELSE LET made == IF kind = "cube" THEN CubeLevel(levelPropertiesList[i])
                   ELSE FlatLevel(levelPropertiesList[i])
       IN IF made.err # NoError THEN [ list |-> list, err |-> made.err ]
          ELSE makeLevelListFrom(levelPropertiesList, kind, i + 1,
                                 Append(list, made.level))

makeLevelList(levelPropertiesList, kind) ==
  makeLevelListFrom(levelPropertiesList, kind, 1, <<>>)

\* The loop of the geometry constructors over levelList[1..]: the first error
\* thrown by a validation, or none.
RECURSIVE ValidateFrom(_, _, _)
ValidateFrom(levelList, kind, i) ==
  IF i > Len(levelList) THEN NoError
  ELSE LET v == IF kind = "cube"
                THEN CubeValidateWithParentLevel(levelList[i], levelList[i - 1])
                ELSE FlatValidateWithParentLevel(levelList[i], levelList[i - 1])
       IN IF v.err # NoError THEN v.err ELSE ValidateFrom(levelList, kind, i + 1)

\* new CubeGeometry(levelPropertiesList): the level list of the object, or the
\* error thrown, in which case there is no object.
CubeGeometry(levelPropertiesList) ==
  LET made == makeLevelList(levelPropertiesList, "cube")
  IN IF made.err # NoError THEN [ levelList |-> <<>>, err |-> made.err ]
     ELSE LET err == ValidateFrom(made.list, "cube", 2)
          IN [ levelList |-> IF err = NoError THEN made.list ELSE <<>>, err |-> err ]

\* new FlatGeometry(levelPropertiesList) of geometries/Flat.js.
FlatGeometry(levelPropertiesList) ==
  LET made == makeLevelList(levelPropertiesList, "flat")
  IN IF made.err # NoError THEN [ levelList |-> <<>>, err |-> made.err ]
     ELSE LET err == ValidateFrom(made.list, "flat", 2)
          IN [ levelList |-> IF err = NoError THEN made.list ELSE <<>>, err |-> err ]

Sizes == 1..MaxSize

CubeLevelProperties == [ size : Sizes, tileSize : Sizes ]

FlatLevelProperties ==
  [ width : Sizes, height : Sizes, tileWidth : Sizes, tileHeight : Sizes ]

\* Level lists from the coarsest level to the finest, as the callers give them.
LevelLists(props, kind) ==
  { l \in UNION { [1..n -> props] : n \in 1..MaxLevels } :
      \A i \in 2..Len(l) :
        (IF kind = "cube" THEN CubeLevel(l[i - 1]).level ELSE FlatLevel(l[i - 1]).level).width
          <= (IF kind = "cube" THEN CubeLevel(l[i]).level ELSE FlatLevel(l[i]).level).width }

\* t.equals(t), t.equals(u), then t.hash(), u.hash() and t.hash() again.
CompareCubeTiles(t, u) ==
  /\ geo.op = "new"
  /\ geo' = [ NoGeo EXCEPT !.op = "compare", !.kind = "cube", !.t = t, !.u = u,
                !.ret = <<CubeTileEquals(t, t), CubeTileEquals(t, u)>>,
                !.hashes = <<CubeTileHash(t), CubeTileHash(u), CubeTileHash(t)>> ]
  /\ UNCHANGED <<store, now, last, mon, trail, netPins, srch, loop, anim>>

CompareFlatTiles(t, u) ==
  /\ geo.op = "new"
  /\ geo' = [ NoGeo EXCEPT !.op = "compare", !.kind = "flat", !.t = t, !.u = u,
                !.ret = <<FlatTileEquals(t, t), FlatTileEquals(t, u)>>,
                !.hashes = <<FlatTileHash(t), FlatTileHash(u), FlatTileHash(t)>> ]
  /\ UNCHANGED <<store, now, last, mon, trail, netPins, srch, loop, anim>>

CubeGeometryCall(levelPropertiesList) ==
  /\ geo.op = "new"
  /\ LET out == CubeGeometry(levelPropertiesList)
     IN geo' = [ NoGeo EXCEPT !.op = "geometry", !.kind = "cube",
                   !.levels = levelPropertiesList,
                   !.levelList = out.levelList, !.err = out.err ]
  /\ UNCHANGED <<store, now, last, mon, trail, netPins, srch, loop, anim>>

FlatGeometryCall(levelPropertiesList) ==
  /\ geo.op = "new"
  /\ LET out == FlatGeometry(levelPropertiesList)
     IN geo' = [ NoGeo EXCEPT !.op = "geometry", !.kind = "flat",
                   !.levels = levelPropertiesList,
                   !.levelList = out.levelList, !.err = out.err ]
  /\ UNCHANGED <<store, now, last, mon, trail, netPins, srch, loop, anim>>

\* These calls have no state to carry from one to the next: each behaviour
\* makes one of them.
NextTiles ==
  /\ geo.op = "new"
  /\ \/ \E t \in CubeTiles, u \in CubeTiles : CompareCubeTiles(t, u)
     \/ \E t \in FlatTiles, u \in FlatTiles : CompareFlatTiles(t, u)

SpecTiles == Init /\ [][NextTiles]_vars

NextGeometry ==
  /\ geo.op = "new"
  /\ \/ \E l \in LevelLists(CubeLevelProperties, "cube") : CubeGeometryCall(l)
     \/ \E l \in LevelLists(FlatLevelProperties, "flat") : FlatGeometryCall(l)

SpecGeometry == Init /\ [][NextGeometry]_vars

\* The fields the documentation of a tile names: the geometry it belongs to,
\* its face where it has one, its level and its position.
SameTile(t, u) ==
  /\ t._geometry = u._geometry
  /\ ("face" \in DOMAIN t => t.face = u.face)
  /\ t.z = u.z /\ t.x = u.x /\ t.y = u.y

\* C21: t.equals(t) holds; t.equals(u) holds exactly when t and u are of the
\* same geometry instance with the same face, level, x and y; equal tiles have
\* equal hashes; a second hash() call on a tile returns what the first did.
C21_EqualsAndHash ==
  geo.op = "compare" =>
    /\ geo.ret[1]
    /\ geo.ret[2] <=> SameTile(geo.t, geo.u)
    /\ geo.ret[2] => geo.hashes[1] = geo.hashes[2]
    /\ geo.hashes[3] = geo.hashes[1]

\* Two cube tiles that differ in nothing but the geometry they belong to have
\* been compared and found different.
C21_Witness ==
  /\ geo.op = "compare" /\ geo.kind = "cube"
  /\ geo.t._geometry # geo.u._geometry
  /\ [geo.t EXCEPT !._geometry = 0] = [geo.u EXCEPT !._geometry = 0]
  /\ ~geo.ret[2]

\* A level is a multiple of the level before it: in pixel size and in tile size.
MultipleOfParent(level, parent) ==
  /\ level.width % parent.width = 0
  /\ level.height % parent.height = 0
  /\ level.tileWidth % parent.tileWidth = 0
  /\ level.tileHeight % parent.tileHeight = 0

LevelOf(kind, p) == IF kind = "cube" THEN CubeLevel(p).level ELSE FlatLevel(p).level

BadLevels(kind, levels) ==
  \E i \in 2..Len(levels) :
    ~MultipleOfParent(LevelOf(kind, levels[i]), LevelOf(kind, levels[i - 1]))

\* C22: constructing a cube or flat geometry from a level list with a level
\* whose pixel size or tile size is not an integer multiple of the coarser
\* level's throws, and no geometry object is produced.
C22_BadLevelsThrow ==
  (geo.op = "geometry" /\ BadLevels(geo.kind, geo.levels)) =>
    (geo.err # NoError /\ geo.levelList = <<>>)

\* ----------------------------------------------------- parent and children
\* Math.floor((x / n) * p) for integers 0 <= x < n and p a divisor of n, in
\* IEEE-754 double arithmetic as JavaScript computes it: x / n is rounded to
\* 53 bits and so is its product with p.  The result is the floor of x * p / n
\* except for the arguments listed, for which the product falls one unit in
\* the last place below the integer x * p / n.  The list is complete for
\* n <= 48.
RoundedBelow ==
  { <<15, 22, 22>>, <<13, 23, 23>>, <<15, 26, 26>>, <<31, 39, 39>>,
    <<23, 43, 43>>, <<31, 43, 43>>, <<30, 44, 22>>, <<15, 44, 44>>,
    <<30, 44, 44>>, <<13, 45, 45>>, <<26, 45, 45>>, <<26, 46, 23>>,
    <<13, 46, 46>>, <<26, 46, 46>>, <<3, 47, 47>>, <<6, 47, 47>>,
    <<12, 47, 47>>, <<24, 47, 47>>, <<31, 47, 47>> }

floorOfScaled(x, n, p) ==
  IF <<x, n, p>> \in RoundedBelow THEN ((x * p) \div n) - 1 ELSE (x * p) \div n

\* CubeTile.prototype.parent on a tile of the geometry with this level list;
\* null is the empty sequence.  Levels are numbered from 0.
CubeTileParent(this, levelList) ==
  IF this.z = 0 THEN <<>>
  ELSE LET level == levelList[this.z + 1]
           parentLevel == levelList[this.z]
           tileX == floorOfScaled(this.x, numHorizontalTiles(level),
                                  numHorizontalTiles(parentLevel))
           tileY == floorOfScaled(this.y, numVerticalTiles(level),
                                  numVerticalTiles(parentLevel))
       IN << NewCubeTile(this.face, tileX, tileY, this.z - 1, this._geometry) >>

\* CubeTile.prototype.children: h is the outer loop, v the inner one.
CubeTileChildren(this, levelList) ==
  IF this.z = Len(levelList) - 1 THEN [ null |-> TRUE, tiles |-> <<>> ]
  ELSE LET level == levelList[this.z + 1]
           childLevel == levelList[this.z + 2]
           nHoriz == numHorizontalTiles(childLevel) \div numHorizontalTiles(level)
           nVert == numVerticalTiles(childLevel) \div numVerticalTiles(level)
       IN [ null |-> FALSE,
            tiles |-> [ k \in 1..(nHoriz * nVert) |->
                          NewCubeTile(this.face,
                                      nHoriz * this.x + ((k - 1) \div nVert),
                                      nVert * this.y + ((k - 1) % nVert),
                                      this.z + 1, this._geometry) ] ]

\* FlatTile.prototype.parent.
FlatTileParent(this, levelList) ==
  IF this.z = 0 THEN <<>>
  ELSE << NewFlatTile(this.x \div 2, this.y \div 2, this.z - 1, this._geometry) >>

\* FlatTile.prototype.children.
FlatTileChildren(this, levelList) ==
  IF this.z = Len(levelList) - 1 THEN [ null |-> TRUE, tiles |-> <<>> ]
  ELSE [ null |-> FALSE,
         tiles |-> << NewFlatTile(2 * this.x, 2 * this.y, this.z + 1, this._geometry),
                      NewFlatTile(2 * this.x, 2 * this.y + 1, this.z + 1, this._geometry),
                      NewFlatTile(2 * this.x + 1, 2 * this.y, this.z + 1, this._geometry),
                      NewFlatTile(2 * this.x + 1, 2 * this.y + 1, this.z + 1,
                                  this._geometry) >> ]

\* The tiles of a geometry: those inside the grid of one of its levels.
InGrid(tile, levelList) ==
  /\ tile.z \in 0..(Len(levelList) - 1)
  /\ tile.x \in 0..(numHorizontalTiles(levelList[tile.z + 1]) - 1)
  /\ tile.y \in 0..(numVerticalTiles(levelList[tile.z + 1]) - 1)

\* Cube face sizes: the small ones, and two whose tile counts are not powers
\* of two.
FamilySizes == Sizes \cup {22, 44}

CubeFamilyLevels ==
  { l \in LevelLists([ size : FamilySizes, tileSize : Sizes ], "cube") :
      CubeGeometry(l).err = NoError }

\* Flat level lists every level of which is a multiple of the one before, in
\* pixel size and in tile size.
FlatFamilyLevels ==
  { l \in LevelLists(FlatLevelProperties, "flat") :
      FlatGeometry(l).err = NoError /\ ~BadLevels("flat", l) }

\* t.parent() and t.children() on a tile of a constructed cube geometry, and
\* c.parent() on each of the children.
CubeFamily(levelPropertiesList, face, x, y, z) ==
  /\ geo.op = "new"
  /\ LET levelList == CubeGeometry(levelPropertiesList).levelList
         t == NewCubeTile(face, x, y, z, 1)
         children == CubeTileChildren(t, levelList)
     IN /\ InGrid(t, levelList)
        /\ geo' = [ NoGeo EXCEPT !.op = "family", !.kind = "cube", !.t = t,
                      !.levels = levelPropertiesList, !.levelList = levelList,
                      !.ret = [ parent |-> CubeTileParent(t, levelList),
                                children |-> children,
                                parents |-> [ k \in 1..Len(children.tiles) |->
                                  CubeTileParent(children.tiles[k], levelList) ] ] ]
  /\ UNCHANGED <<store, now, last, mon, trail, netPins, srch, loop, anim>>

FlatFamily(levelPropertiesList, x, y, z) ==
  /\ geo.op = "new"
  /\ LET levelList == FlatGeometry(levelPropertiesList).levelList
         t == NewFlatTile(x, y, z, 1)
         children == FlatTileChildren(t, levelList)
     IN /\ InGrid(t, levelList)
        /\ geo' = [ NoGeo EXCEPT !.op = "family", !.kind = "flat", !.t = t,
                      !.levels = levelPropertiesList, !.levelList = levelList,
                      !.ret = [ parent |-> FlatTileParent(t, levelList),
                                children |-> children,
                                parents |-> [ k \in 1..Len(children.tiles) |->
                                  FlatTileParent(children.tiles[k], levelList) ] ] ]
  /\ UNCHANGED <<store, now, last, mon, trail, netPins, srch, loop, anim>>

NextFamily ==
  /\ geo.op = "new"
  /\ \/ \E l \in CubeFamilyLevels, f \in 1..Len(faceList), z \in 0..(MaxLevels - 1) :
          /\ z < Len(l)
          /\ \E x \in 0..(l[z + 1].size - 1), y \in 0..(l[z + 1].size - 1) :
               CubeFamily(l, faceList[f], x, y, z)
     \/ \E l \in FlatFamilyLevels, z \in 0..(MaxLevels - 1) :
          /\ z < Len(l)
          /\ \E x \in 0..(l[z + 1].width - 1), y \in 0..(l[z + 1].height - 1) :
               FlatFamily(l, x, y, z)

\* The tiles' operations do not involve a store: one new store is enough.
InitFamily ==
  /\ Init
  /\ store._source = "cube"

SpecFamily == InitFamily /\ [][NextFamily]_vars

\* t.equals(u) for two tiles of the same kind.
TileEquals(kind, t, u) ==
  IF kind = "cube" THEN CubeTileEquals(t, u) ELSE FlatTileEquals(t, u)

\* C34: for every cube or flat tile t, t.parent() is null exactly when t is at
\* level 0 and is otherwise a tile one level coarser; t.children() is null
\* exactly when t is at the finest level; every c of t.children() is one level
\* finer and c.parent().equals(t).
C34_ParentOfChild ==
  geo.op = "family" =>
    /\ geo.ret.parent = <<>> <=> geo.t.z = 0
    /\ geo.ret.parent # <<>> => geo.ret.parent[1].z = geo.t.z - 1
    /\ geo.ret.children.null <=> geo.t.z = Len(geo.levelList) - 1
    /\ \A k \in 1..Len(geo.ret.children.tiles) :
         /\ geo.ret.children.tiles[k].z = geo.t.z + 1
         /\ geo.ret.parents[k] # <<>>
         /\ TileEquals(geo.kind, geo.ret.parents[k][1], geo.t)

\* C39: for every geometry that passes construction, every tile children()
\* returns lies inside the grid of the next finer level.
C39_ChildrenInGrid ==
  geo.op = "family" =>
    \A k \in 1..Len(geo.ret.children.tiles) :
      InGrid(geo.ret.children.tiles[k], geo.levelList)

\* ------------------------------------------------------------ RenderLoop
MaxFrames == 4
MaxListenerCalls == 1

\* window.requestAnimationFrame(this._boundLoop): a new handle, queued.
requestAnimationFrame(l) ==
  [ l EXCEPT !.handles = @ + 1, !.queue = @ \cup {l.handles + 1} ]

\* window.cancelAnimationFrame(handle).
cancelAnimationFrame(l, handle) == [ l EXCEPT !.queue = @ \ {handle} ]

renderOnNextFrame(l) ==
  IF l._running /\ l._requestHandle = 0
  THEN [ requestAnimationFrame(l) EXCEPT !._requestHandle = l.handles + 1 ]
  ELSE l

start(l) == renderOnNextFrame([ l EXCEPT !._running = TRUE ])

stop(l) ==
  LET l1 == IF l._requestHandle # 0
            THEN [ cancelAnimationFrame(l, l._requestHandle) EXCEPT !._requestHandle = 0 ]
            ELSE l
  IN [ l1 EXCEPT !._running = FALSE ]

\* The handler of the stage's renderInvalid event.
_renderInvalidHandler(l) == IF ~l._rendering THEN renderOnNextFrame(l) ELSE l

\* What the listeners of beforeRender and afterRender may call on the loop.
ListenerCalls == {"start", "stop", "renderOnNextFrame", "renderInvalid"}

Call(l, call) ==
  CASE call = "start" -> start(l)
    [] call = "stop" -> stop(l)
    [] call = "renderOnNextFrame" -> renderOnNextFrame(l)
    [] call = "renderInvalid" -> _renderInvalidHandler(l)

\* this.emit(event): the listeners run inside the call, one after the other.
RECURSIVE emit(_, _)
emit(l, calls) == IF calls = <<>> THEN l ELSE emit(Call(l, Head(calls)), Tail(calls))

\* this._stage.render(): counted, and counted apart when the loop is stopped
\* at the moment of the call; the stage may emit renderInvalid while rendering.
StageRender(l, invalid) ==
  LET l1 == [ l EXCEPT !.renders = @ + 1,
                       !.stoppedRenders = @ + (IF l._running THEN 0 ELSE 1) ]
  IN IF invalid THEN _renderInvalidHandler(l1) ELSE l1

_loop(l, before, invalid, after) ==
  IF ~l._running
  THEN [ l EXCEPT !.err = "Render loop running while in stopped state" ]
  ELSE LET l1 == [ l EXCEPT !._requestHandle = 0, !._rendering = TRUE ]
           l2 == emit(l1, before)
           l3 == [ l2 EXCEPT !._rendering = FALSE ]
           l4 == StageRender(l3, invalid)
       IN emit(l4, after)

ListenerSeqs == UNION { [1..n -> ListenerCalls] : n \in 0..MaxListenerCalls }

LoopUnchanged == UNCHANGED <<store, now, last, mon, trail, netPins, srch, geo, anim>>

StartCall ==
  /\ loop.handles < MaxFrames
  /\ loop' = [ start(loop) EXCEPT !.op = "start" ]
  /\ LoopUnchanged

StopCall ==
  /\ loop.handles < MaxFrames
  /\ loop' = [ stop(loop) EXCEPT !.op = "stop" ]
  /\ LoopUnchanged

RenderOnNextFrameCall ==
  /\ loop.handles < MaxFrames
  /\ loop' = [ renderOnNextFrame(loop) EXCEPT !.op = "renderOnNextFrame" ]
  /\ LoopUnchanged

\* The stage emits renderInvalid outside a frame.
RenderInvalid ==
  /\ loop.handles < MaxFrames
  /\ loop' = [ _renderInvalidHandler(loop) EXCEPT !.op = "renderInvalid" ]
  /\ LoopUnchanged

\* The browser runs a queued animation-frame callback.
AnimationFrame(before, invalid, after) ==
  /\ loop.handles < MaxFrames
  /\ \E handle \in loop.queue :
       loop' = [ _loop(cancelAnimationFrame(loop, handle), before, invalid, after)
                   EXCEPT !.op = "frame" ]
  /\ LoopUnchanged

NextRenderLoop ==
  \/ StartCall
  \/ StopCall
  \/ RenderOnNextFrameCall
  \/ RenderInvalid
  \/ \E before \in ListenerSeqs, after \in ListenerSeqs, invalid \in BOOLEAN :
       AnimationFrame(before, invalid, after)

SpecRenderLoop == Init /\ [][NextRenderLoop]_vars

\* C25: while the RenderLoop is stopped, Stage.render is never called,
\* whatever the interleaving of start, stop, renderOnNextFrame, renderInvalid
\* events, animation frames and the calls the render listeners make.
C25_NoRenderWhileStopped == loop.stoppedRenders = 0

\* --------------------------------------------------------------- animate
MaxDuration == 3
MaxAnimFrames == 6
MaxCancels == 1

\* animate(opts) with an onComplete: the first frame is requested and the
\* cancel function returned.  Time is counted from performance.now() at the
\* call, in ticks.
animate(duration) ==
  [ requestAnimationFrame(NoAnimation) EXCEPT
      !.started = TRUE, !.duration = duration, !.rafId = 1, !.op = "animate" ]

\* The cancel function animate returns.
cancel(a) ==
  LET a1 == [ a EXCEPT !.cancelled = TRUE, !.cancels = @ + 1 ]
      a2 == IF a1.rafId # 0
            THEN [ cancelAnimationFrame(a1, a1.rafId) EXCEPT !.rafId = 0 ]
            ELSE a1
  IN [ a2 EXCEPT !.completes = @ + 1 ]

\* step(currentTime) with elapsed = currentTime - startTime; onUpdate calls
\* cancel() when cancelInside.  progress = min(elapsed / duration, 1) is below
\* 1 exactly when elapsed < duration.
step(a, elapsed, cancelInside) ==
  IF a.cancelled THEN a
  ELSE LET a1 == [ a EXCEPT !.elapsed = elapsed, !.updates = @ + 1 ]
           a2 == IF cancelInside THEN cancel(a1) ELSE a1
       IN IF elapsed < a.duration
          THEN [ requestAnimationFrame(a2) EXCEPT !.rafId = a2.handles + 1 ]
          ELSE [ a2 EXCEPT !.completes = @ + 1 ]

AnimUnchanged == UNCHANGED <<store, now, last, mon, trail, netPins, srch, geo, loop>>

Animate(duration) ==
  /\ ~anim.started
  /\ anim' = animate(duration)
  /\ AnimUnchanged

\* The browser runs a queued frame callback, dt ticks after the last one.
Step(dt, cancelInside) ==
  /\ anim.handles < MaxAnimFrames
  /\ cancelInside => anim.cancels < MaxCancels
  /\ \E handle \in anim.queue :
       anim' = [ step(cancelAnimationFrame(anim, handle), anim.elapsed + dt, cancelInside)
                   EXCEPT !.op = "step" ]
  /\ AnimUnchanged

\* The caller calls the cancel function outside a frame.
CancelCall ==
  /\ anim.started
  /\ anim.cancels < MaxCancels
  /\ anim' = [ cancel(anim) EXCEPT !.op = "cancel" ]
  /\ AnimUnchanged

NextAnimate ==
  \/ \E duration \in 1..MaxDuration : Animate(duration)
  \/ \E dt \in 0..1, cancelInside \in BOOLEAN : Step(dt, cancelInside)
  \/ CancelCall

SpecAnimate == Init /\ [][NextAnimate]_vars

\* The animation has ended: it has reached progress 1 or has been cancelled.
Ended == anim.started /\ (anim.cancelled \/ anim.elapsed >= anim.duration)

\* C26: for every animation started with animate(), onComplete is invoked
\* exactly once, whether the animation ends by reaching progress 1 or by a call
\* of the cancel function made at any point, also from inside onUpdate: never
\* twice, and once when the animation has ended.
C26_CompleteOnce ==
  /\ anim.completes <= 1
  /\ Ended => anim.completes = 1

====
